---- MODULE Spec2Model ----
(***************************************************************************)
(* The top bar of a decorated window (src/layout/top_bar.rs): the bar's    *)
(* and its five buttons' geometry computed from the window width, the      *)
(* pointer hit test against that geometry, and the ordered list of render  *)
(* elements.                                                               *)
(*                                                                         *)
(* Lengths are f64 logical pixels in the source.  The model uses integer   *)
(* logical pixels: every layout constant is an integer, (24 - 18) / 2 is   *)
(* exact, and integer widths and points give exact f64 arithmetic.         *)
(* Colours are RGBA in thousandths (0.2 is 200, 1.0 is 1000).              *)
(***************************************************************************)
EXTENDS Integers, Sequences, FiniteSets

\* ---------------------------------------------------------------- constants
TOP_BAR_HEIGHT == 24
BUTTON_SIZE == 18
BUTTON_SPACING == 4
EDGE_PADDING == 6

BUTTON_SCREENSHOT == 0
BUTTON_PRESET_WIDTH == 1
BUTTON_CLOSE == 2
BUTTON_MINIMIZE == 3
BUTTON_MAXIMIZE == 4

\* the indices of button_locations / button_buffers, arrays of length 5
Buttons == BUTTON_SCREENSHOT .. BUTTON_MAXIMIZE

\* ------------------------------------------------------------------- bounds
\* window widths handed to update: 0 .. MaxWidth, and the width of the
\* specification's worked scenario
MaxWidth == 116
Widths == (0 .. MaxWidth) \cup {400}
\* window heights handed to update (update reads only the width)
WinHeights == {0, 300}
\* the history counter of update calls saturates here
MaxUpdates == 2

\* the points over which the statements about every point are evaluated
MaxNegX == 92
MaxX == 122
MaxNegY == 2
MaxY == 26
GridXs == (0 - MaxNegX) .. MaxX
GridYs == (0 - MaxNegY) .. MaxY

\* the points handed to hit_test and the origins handed to render
PointXs == {0 - 10, 5, 15, 33, 55, 77, 99, 320}
PointYs == {0 - 1, 5, 10, 12, 25}
Origins == {<<0, 0>>, <<100, 50>>, <<0 - 7, 3>>}

\* -------------------------------------------------------------- geometry
Point(x, y) == [x |-> x, y |-> y]
Size(w, h) == [w |-> w, h |-> h]
Rectangle(loc, size) == [loc |-> loc, size |-> size]

\* Point::default(), Size::default()
PointDefault == Point(0, 0)
SizeDefault == Size(0, 0)

\* Point + Point
PointAdd(a, b) == Point(a.x + b.x, a.y + b.y)

\* Rectangle::contains: lower edges inclusive, upper edges exclusive
contains(rect, point) ==
    /\ point.x >= rect.loc.x
    /\ point.x < rect.loc.x + rect.size.w
    /\ point.y >= rect.loc.y
    /\ point.y < rect.loc.y + rect.size.h

\* Option<usize>
None == {}
Some(i) == {i}

\* ------------------------------------------------------ colour buffers
BACKGROUND_COLOR == <<200, 200, 200, 900>>
BUTTON_COLOR_TABLE ==
    [i \in Buttons |->
        CASE i = BUTTON_SCREENSHOT -> <<200, 600, 1000, 1000>>
          [] i = BUTTON_PRESET_WIDTH -> <<400, 800, 1000, 1000>>
          [] i = BUTTON_CLOSE -> <<1000, 300, 300, 1000>>
          [] i = BUTTON_MINIMIZE -> <<1000, 700, 200, 1000>>
          [] i = BUTTON_MAXIMIZE -> <<300, 800, 300, 1000>>]

\* SolidColorBuffer::new, resize, set_color
SolidColorBuffer_new(size, color) == [size |-> size, color |-> color]
resize(buffer, size) == [buffer EXCEPT !.size = size]
set_color(buffer, color) == [buffer EXCEPT !.color = color]

\* SolidColorRenderElement::from_buffer
from_buffer(buffer, location, alpha) ==
    [size |-> buffer.size, color |-> buffer.color,
     location |-> location, alpha |-> alpha]

\* ------------------------------------------------------------------ state
VARIABLES
    background_buffer,  \* TopBar.background_buffer
    button_buffers,     \* TopBar.button_buffers
    size,               \* TopBar.size
    button_locations,   \* TopBar.button_locations
    button_colors,      \* TopBar.button_colors
    last_update,        \* history: Some(width) of the latest update, or None
    updates,            \* history: the number of update calls, up to MaxUpdates
    last                \* history: the latest call and what it returned

bar == <<background_buffer, button_buffers, size, button_locations, button_colors>>
vars == <<background_buffer, button_buffers, size, button_locations,
          button_colors, last_update, updates, last>>

\* the TopBar as a value
self ==
    [background_buffer |-> background_buffer,
     button_buffers |-> button_buffers,
     size |-> size,
     button_locations |-> button_locations,
     button_colors |-> button_colors]

\* TopBar::new
new ==
    [background_buffer |-> SolidColorBuffer_new(SizeDefault, BACKGROUND_COLOR),
     button_buffers |->
        [i \in Buttons |->
            SolidColorBuffer_new(Size(BUTTON_SIZE, BUTTON_SIZE), BUTTON_COLOR_TABLE[i])],
     size |-> SizeDefault,
     button_locations |-> [i \in Buttons |-> PointDefault],
     button_colors |-> BUTTON_COLOR_TABLE]

\* the loop of update over the window control buttons, from i down to
\* BUTTON_CLOSE: the locations and the right_offset it leaves
RECURSIVE place_controls(_, _, _, _)
place_controls(locations, right_offset, button_y, i) ==
    IF i < BUTTON_CLOSE
    THEN [locations |-> locations, right_offset |-> right_offset]
    ELSE place_controls(
            [locations EXCEPT ![i] = Point(right_offset - BUTTON_SIZE, button_y)],
            right_offset - BUTTON_SIZE - BUTTON_SPACING,
            button_y, i - 1)

\* the loop of update over the button buffers, from i up
RECURSIVE refresh_buffers(_, _)
refresh_buffers(buffers, i) ==
    IF i > BUTTON_MAXIMIZE
    THEN buffers
    ELSE refresh_buffers(
            [buffers EXCEPT ![i] =
                set_color(resize(@, Size(BUTTON_SIZE, BUTTON_SIZE)),
                          BUTTON_COLOR_TABLE[i])],
            i + 1)

\* update with the right cluster laid out from the width the bar had before
\* the call (mutant)
update_stale_width(bar0, win_size) ==
    LET new_size == Size(win_size.w, TOP_BAR_HEIGHT)
        button_y == (TOP_BAR_HEIGHT - BUTTON_SIZE) \div 2
        left_offset == EDGE_PADDING
        with_left == [bar0.button_locations EXCEPT
                        ![BUTTON_SCREENSHOT] = Point(left_offset, button_y)]
        placed == place_controls(with_left, bar0.size.w - EDGE_PADDING,
                                 button_y, BUTTON_MAXIMIZE)
        right_offset == placed.right_offset - BUTTON_SIZE
    IN  [bar0 EXCEPT
            !.size = new_size,
            !.background_buffer = set_color(resize(@, new_size), BACKGROUND_COLOR),
            !.button_locations =
                [placed.locations EXCEPT
                    ![BUTTON_PRESET_WIDTH] = Point(right_offset, button_y)],
            !.button_buffers = refresh_buffers(@, BUTTON_SCREENSHOT)]

\* update with the spacing the loop left behind Close taken back before the
\* preset width button is placed (mutant)
update_no_gap(bar0, win_size) ==
    LET new_size == Size(win_size.w, TOP_BAR_HEIGHT)
        button_y == (TOP_BAR_HEIGHT - BUTTON_SIZE) \div 2
        left_offset == EDGE_PADDING
        with_left == [bar0.button_locations EXCEPT
                        ![BUTTON_SCREENSHOT] = Point(left_offset, button_y)]
        placed == place_controls(with_left, win_size.w - EDGE_PADDING,
                                 button_y, BUTTON_MAXIMIZE)
        right_offset == placed.right_offset + BUTTON_SPACING - BUTTON_SIZE
    IN  [bar0 EXCEPT
            !.size = new_size,
            !.background_buffer = set_color(resize(@, new_size), BACKGROUND_COLOR),
            !.button_locations =
                [placed.locations EXCEPT
                    ![BUTTON_PRESET_WIDTH] = Point(right_offset, button_y)],
            !.button_buffers = refresh_buffers(@, BUTTON_SCREENSHOT)]

\* TopBar::update
update(bar0, win_size) ==
    LET new_size == Size(win_size.w, TOP_BAR_HEIGHT)
        button_y == (TOP_BAR_HEIGHT - BUTTON_SIZE) \div 2
        left_offset == EDGE_PADDING
        with_left == [bar0.button_locations EXCEPT
                        ![BUTTON_SCREENSHOT] = Point(left_offset, button_y)]
        placed == place_controls(with_left, win_size.w - EDGE_PADDING,
                                 button_y, BUTTON_MAXIMIZE)
        right_offset == placed.right_offset - BUTTON_SIZE
    IN  [bar0 EXCEPT
            !.size = new_size,
            !.background_buffer = set_color(resize(@, new_size), BACKGROUND_COLOR),
            !.button_locations =
                [placed.locations EXCEPT
                    ![BUTTON_PRESET_WIDTH] = Point(right_offset, button_y)],
            !.button_buffers = refresh_buffers(@, BUTTON_SCREENSHOT)]

\* the scan of hit_test over button_locations, from index i up
RECURSIVE scan_buttons(_, _, _)
scan_buttons(locations, point, i) ==
    IF i > BUTTON_MAXIMIZE
    THEN None
    ELSE IF contains(Rectangle(locations[i], Size(BUTTON_SIZE, BUTTON_SIZE)), point)
         THEN Some(i)
         ELSE scan_buttons(locations, point, i + 1)

\* the scan of hit_test from index i down (mutant helper)
RECURSIVE scan_buttons_rev(_, _, _)
scan_buttons_rev(locations, point, i) ==
    IF i < BUTTON_SCREENSHOT
    THEN None
    ELSE IF contains(Rectangle(locations[i], Size(BUTTON_SIZE, BUTTON_SIZE)), point)
         THEN Some(i)
         ELSE scan_buttons_rev(locations, point, i - 1)

\* hit_test scanning the buttons from the last to the first (mutant)
hit_test_reverse(bar0, point) ==
    IF point.y < 0 \/ point.y > TOP_BAR_HEIGHT
    THEN None
    ELSE scan_buttons_rev(bar0.button_locations, point, BUTTON_MAXIMIZE)

\* hit_test starting its scan after the first button (mutant)
hit_test_skip_first(bar0, point) ==
    IF point.y < 0 \/ point.y > TOP_BAR_HEIGHT
    THEN None
    ELSE scan_buttons(bar0.button_locations, point, BUTTON_PRESET_WIDTH)

\* hit_test that also rejects points left or right of the bar (mutant)
hit_test_bounded_x(bar0, point) ==
    IF \/ point.y < 0 \/ point.y > TOP_BAR_HEIGHT
       \/ point.x < 0 \/ point.x > bar0.size.w
    THEN None
    ELSE scan_buttons(bar0.button_locations, point, BUTTON_SCREENSHOT)

\* hit_test that compares only the column of the point with the buttons
\* (mutant)
hit_test_columns(bar0, point) ==
    LET hit == {i \in Buttons :
                  /\ point.x >= bar0.button_locations[i].x
                  /\ point.x < bar0.button_locations[i].x + BUTTON_SIZE}
    IN  IF hit = {} THEN None
        ELSE Some(CHOOSE i \in hit : \A j \in hit : i <= j)

\* TopBar::hit_test
hit_test(bar0, point) ==
    IF point.y < 0 \/ point.y > TOP_BAR_HEIGHT
    THEN None
    ELSE scan_buttons(bar0.button_locations, point, BUTTON_SCREENSHOT)

\* render with the background chained after the buttons (mutant)
render_background_last(bar0, location) ==
    [k \in 1 .. Cardinality(Buttons) |->
            from_buffer(bar0.button_buffers[k - 1],
                        PointAdd(location, bar0.button_locations[k - 1]),
                        1000)]
    \o <<from_buffer(bar0.background_buffer, location, 1000)>>

\* TopBar::render: the elements the iterator yields, in order
render(bar0, location) ==
    <<from_buffer(bar0.background_buffer, location, 1000)>>
    \o [k \in 1 .. Cardinality(Buttons) |->
            from_buffer(bar0.button_buffers[k - 1],
                        PointAdd(location, bar0.button_locations[k - 1]),
                        1000)]

\* ---------------------------------------------------------------- actions
SetBar(b) ==
    /\ background_buffer' = b.background_buffer
    /\ button_buffers' = b.button_buffers
    /\ size' = b.size
    /\ button_locations' = b.button_locations
    /\ button_colors' = b.button_colors

Init ==
    /\ background_buffer = new.background_buffer
    /\ button_buffers = new.button_buffers
    /\ size = new.size
    /\ button_locations = new.button_locations
    /\ button_colors = new.button_colors
    /\ last_update = None
    /\ updates = 0
    /\ last = [op |-> "new"]

Update ==
    \E w \in Widths, h \in WinHeights :
        /\ SetBar(update(self, Size(w, h)))
        /\ last_update' = Some(w)
        /\ updates' = IF updates < MaxUpdates THEN updates + 1 ELSE updates
        /\ last' = [op |-> "update"]

HitTest ==
    \E x \in PointXs, y \in PointYs :
        /\ last' = [op |-> "hit_test", point |-> Point(x, y),
                    result |-> hit_test(self, Point(x, y))]
        /\ UNCHANGED <<bar, last_update, updates>>

Render ==
    \E o \in Origins :
        /\ last' = [op |-> "render", location |-> Point(o[1], o[2]),
                    result |-> render(self, Point(o[1], o[2]))]
        /\ UNCHANGED <<bar, last_update, updates>>

Next == Update \/ HitTest \/ Render

Spec == Init /\ [][Next]_vars

\* --------------------------------------------------- notions of the claims
\* the points of the grid
Grid == {Point(x, y) : x \in GridXs, y \in GridYs}

\* point p lies in the 18x18 box of button i: left and top edges belong to
\* the box, right and bottom edges do not
InBox(i, p) ==
    /\ button_locations[i].x <= p.x /\ p.x < button_locations[i].x + 18
    /\ button_locations[i].y <= p.y /\ p.y < button_locations[i].y + 18

\* the buttons whose box holds p
Holders(p) == {i \in Buttons : InBox(i, p)}

\* the boxes of buttons i and j have no point in common
Disjoint(i, j) ==
    \/ button_locations[i].x + 18 <= button_locations[j].x
    \/ button_locations[j].x + 18 <= button_locations[i].x
    \/ button_locations[i].y + 18 <= button_locations[j].y
    \/ button_locations[j].y + 18 <= button_locations[i].y

\* the centre of the box of button i
Centre(i) == Point(button_locations[i].x + 9, button_locations[i].y + 9)

\* the bar is as new or update left it: hit_test and render leave it alone,
\* so the statements about every point of the grid are evaluated here
Settled == last.op \in {"new", "update"}

\* ------------------------------------------------------------------- C1
\* C1: after update(w) the bar size is (w, 24), Screenshot.x = 6,
\* Maximize.x = w - 6 - 18, Minimize.x = Maximize.x - 4 - 18,
\* Close.x = Minimize.x - 4 - 18 and every button has y = 3; for w = 400
\* Maximize.x = 376, Minimize.x = 354, Close.x = 332.
C1_Layout ==
    \A w \in last_update :
        /\ size = Size(w, 24)
        /\ button_locations[0].x = 6
        /\ button_locations[4].x = w - 6 - 18
        /\ button_locations[3].x = button_locations[4].x - 4 - 18
        /\ button_locations[2].x = button_locations[3].x - 4 - 18
        /\ \A i \in Buttons : button_locations[i].y = 3
        /\ w = 400 =>
            /\ button_locations[4].x = 376
            /\ button_locations[3].x = 354
            /\ button_locations[2].x = 332

C1_Witness ==
    /\ last_update = Some(400)
    /\ updates = 2
    /\ size = Size(400, 24)
    /\ button_locations[2] = Point(332, 3)

\* ------------------------------------------------------------------- C2
\* C2 as stated: after update(w), PresetWidth.x = Close.x - 18, which is 314
\* for w = 400.
C2_AsStated ==
    \A w \in last_update :
        /\ button_locations[1].x = button_locations[2].x - 18
        /\ w = 400 => button_locations[1].x = 314

\* C2 amended: after update(w), PresetWidth.x = Close.x - 4 - 18: the spacing
\* the loop subtracts after Close also separates PresetWidth from Close; for
\* w = 400 PresetWidth.x = 310.
C2_PresetWidth ==
    \A w \in last_update :
        /\ button_locations[1].x = button_locations[2].x - 4 - 18
        /\ button_locations[1].x = w - 90
        /\ w = 400 => button_locations[1].x = 310

C2_Witness ==
    /\ last_update = Some(400)
    /\ button_locations[2].x = 332
    /\ button_locations[1].x = 310

\* ------------------------------------------------------------------- C3
\* C3: after any sequence of update, hit_test and render calls that holds an
\* update, the bar (size, button positions, buffers, colours) equals a fresh
\* bar on which only the latest update(w) was applied.
C3_OnlyLatestUpdate ==
    \A w \in last_update :
        \A h \in WinHeights :
            self = update(new, Size(w, h))

C3_Witness ==
    /\ updates = 2
    /\ last_update = Some(400)
    /\ last.op = "hit_test"
    /\ button_locations[4].x = 376
    /\ background_buffer.size = Size(400, 24)

\* ------------------------------------------------------------------- C4
\* C4: in every reachable state hit_test(p) is None for every point p with
\* p.y < 0 or p.y > 24, whatever p.x is.
C4_OutsideRows ==
    /\ Settled =>
        \A p \in Grid : (p.y < 0 \/ p.y > 24) => hit_test(self, p) = None
    /\ last.op = "hit_test" =>
        ((last.point.y < 0 \/ last.point.y > 24) => last.result = None)

C4_Witness ==
    /\ last.op = "hit_test"
    /\ last.point = Point(15, 25)
    /\ last.result = None
    /\ InBox(0, Point(15, 12))
    /\ last_update # None

\* ------------------------------------------------------------------- C5
\* C5: after update(w) with the Screenshot box entirely left of the
\* PresetWidth box, the five boxes are pairwise disjoint and hit_test at the
\* centre of each button's box returns that button.
C5_NoOverlap ==
    \A w \in last_update :
        button_locations[0].x + 18 <= button_locations[1].x =>
            /\ \A i, j \in Buttons : i # j => Disjoint(i, j)
            /\ \A i, j \in Buttons : i # j => Holders(Centre(i)) = {i}
            /\ \A i \in Buttons : hit_test(self, Centre(i)) = Some(i)
            /\ last.op = "hit_test" =>
                \A i \in Buttons : last.point = Centre(i) => last.result = Some(i)

C5_Witness ==
    /\ last_update = Some(114)
    /\ button_locations[0].x + 18 <= button_locations[1].x
    /\ last.op = "hit_test"
    /\ last.point = Centre(1)
    /\ last.result = Some(1)

\* ------------------------------------------------------------------- C6
\* C6: after an update, render(_, origin) yields 6 elements: the background
\* at origin with the size of the bar, then one per button in the order
\* Screenshot, PresetWidth, Close, Minimize, Maximize, each at origin + the
\* button's position, 18x18 and of the button's buffer; all of opacity 1.0.
RenderedAsClaimed(elems, origin) ==
    /\ Len(elems) = 6
    /\ elems[1].location = origin
    /\ elems[1].size = size
    /\ elems[1].color = background_buffer.color
    /\ \A i \in Buttons :
        /\ elems[i + 2].location.x = origin.x + button_locations[i].x
        /\ elems[i + 2].location.y = origin.y + button_locations[i].y
        /\ elems[i + 2].size = Size(18, 18)
        /\ elems[i + 2].color = button_buffers[i].color
    /\ \A k \in 1 .. 6 : elems[k].alpha = 1000

C6_RenderOrder ==
    last_update # None =>
        /\ \A o \in Origins :
            RenderedAsClaimed(render(self, Point(o[1], o[2])), Point(o[1], o[2]))
        /\ last.op = "render" => RenderedAsClaimed(last.result, last.location)

C6_Witness ==
    /\ last_update = Some(114)
    /\ last.op = "render"
    /\ last.location = Point(100, 50)
    /\ Len(last.result) = 6
    /\ last.result[1].size = Size(114, 24)
    /\ last.result[6].location = Point(190, 53)

\* ------------------------------------------------------------------- C7
\* C7 as stated: after update with width 400, hit_test at (320, 10) returns
\* Close.
C7_AsStated ==
    last_update = Some(400) =>
        /\ hit_test(self, Point(320, 10)) = Some(2)
        /\ (last.op = "hit_test" /\ last.point = Point(320, 10)) =>
            last.result = Some(2)

\* C7 amended: after update with width 400, hit_test at (320, 10) returns
\* PresetWidth: 320 lies in the PresetWidth box, which spans x from 310 to
\* 328, and left of the Close box, which spans x from 332 to 350.
C7_Scenario ==
    last_update = Some(400) =>
        /\ hit_test(self, Point(320, 10)) = Some(1)
        /\ Holders(Point(320, 10)) = {1}
        /\ (last.op = "hit_test" /\ last.point = Point(320, 10)) =>
            last.result = Some(1)

C7_Witness ==
    /\ last_update = Some(400)
    /\ last.op = "hit_test"
    /\ last.point = Point(320, 10)
    /\ last.result = Some(1)

\* ------------------------------------------------------------------- C8
\* C8: in every reachable state, overlapping boxes included, for every point
\* p with 0 <= p.y <= 24 hit_test(p) is the lowest role among the buttons
\* whose box holds p, and None exactly when no box holds p.
LowestHolder(p) ==
    IF Holders(p) = {}
    THEN None
    ELSE Some(CHOOSE i \in Holders(p) : \A j \in Holders(p) : i <= j)

C8_LowestRoleWins ==
    /\ Settled =>
        \A p \in Grid :
            (0 <= p.y /\ p.y <= 24) => hit_test(self, p) = LowestHolder(p)
    /\ last.op = "hit_test" =>
        ((0 <= last.point.y /\ last.point.y <= 24) =>
            last.result = LowestHolder(last.point))

C8_Witness ==
    /\ last_update = Some(100)
    /\ last.op = "hit_test"
    /\ last.point = Point(15, 12)
    /\ Holders(last.point) = {0, 1}
    /\ last.result = Some(0)

\* ------------------------------------------------------------------- C9
\* C9: update clamps nothing and hit_test rejects no point for its x: after
\* update(w), a point p with 0 <= p.y <= 24 and p.x < 0 or p.x > w that lies
\* in a button's stored box is a hit on a button, not None; after update(10)
\* the point (-10, 10) returns Maximize.
C9_NoClamping ==
    \A w \in last_update :
        /\ Settled =>
            \A p \in Grid :
                (/\ 0 <= p.y /\ p.y <= 24
                 /\ (p.x < 0 \/ p.x > w)
                 /\ Holders(p) # {}) => hit_test(self, p) # None
        /\ last.op = "hit_test" =>
            ((/\ 0 <= last.point.y /\ last.point.y <= 24
              /\ (last.point.x < 0 \/ last.point.x > w)
              /\ Holders(last.point) # {}) => last.result # None)
        /\ w = 10 => hit_test(self, Point(0 - 10, 10)) = Some(4)

C9_Witness ==
    /\ last_update = Some(10)
    /\ button_locations[4].x = 0 - 14
    /\ last.op = "hit_test"
    /\ last.point = Point(0 - 10, 10)
    /\ last.result = Some(4)

\* ------------------------------------------------------------------ C10
\* C10: before any update the bar size is (0, 0) and the five positions are
\* (0, 0); hit_test returns Screenshot for every point of the box at the
\* origin, (5, 5) among them, and never another role; render yields 6
\* elements, all at origin.
C10_BeforeUpdate ==
    last_update = None =>
        /\ size = Size(0, 0)
        /\ \A i \in Buttons : button_locations[i] = Point(0, 0)
        /\ Settled =>
            \A p \in Grid :
                /\ hit_test(self, p) \subseteq Some(0)
                /\ (0 <= p.x /\ p.x < 18 /\ 0 <= p.y /\ p.y < 18)
                        => hit_test(self, p) = Some(0)
        /\ hit_test(self, Point(5, 5)) = Some(0)
        /\ last.op = "hit_test" => last.result \subseteq Some(0)
        /\ \A o \in Origins :
            LET elems == render(self, Point(o[1], o[2]))
            IN  /\ Len(elems) = 6
                /\ \A k \in 1 .. 6 : elems[k].location = Point(o[1], o[2])
        /\ last.op = "render" =>
            /\ Len(last.result) = 6
            /\ \A k \in 1 .. 6 : last.result[k].location = last.location

C10_Witness ==
    /\ last_update = None
    /\ last.op = "hit_test"
    /\ last.point = Point(5, 5)
    /\ last.result = Some(0)

====
